---- MODULE Spec2Model ----
(***************************************************************************)
(* Model of src/Functions.py: the event segmenter get_events, the spectrum *)
(* estimator calculate_nd and the bulk integrator calculate_parameters_dsd.*)
(*                                                                         *)
(* Timestamps are whole minutes.  In the event segmenter a value of ds.nd  *)
(* is Num(x) for an integer x, or NaN (missing).                           *)
(*                                                                         *)
(* In calculate_nd and calculate_parameters_dsd the tables are exact:      *)
(* a diameter is a whole number of 1/8 mm, a velocity a whole number of    *)
(* 1/10 m/s, delta_t a whole number of seconds, so that bin widths, areas  *)
(* and denominators are exact integers (in the product of these units).    *)
(* A floating-point value computed from them is kept as its class: "zero", *)
(* "pos" (finite, positive), "inf" or "nan".  All inputs are non-negative, *)
(* so no negative value arises.                                            *)
(***************************************************************************)
EXTENDS Integers, Sequences, FiniteSets, TLC

VARIABLES
    ds,           \* get_events: the dataset, a time-ascending sequence of [time, nd]
    time_lenght,  \* get_events: argument
    time_break,   \* get_events: argument
    tot_counts,   \* get_events: argument
    groups,       \* get_events: the local `groups` when the call returns
    start,        \* get_events: first returned list
    end,          \* get_events: second returned list
    pc,           \* "build" while the input is assembled, "done" after the call
    diameter,     \* calculate_nd: the diameter table passed
    velocity,     \* calculate_nd: the velocity table passed
    delta_t,      \* calculate_nd: argument
    raw,          \* calculate_nd: the raw count matrix with its coordinates
    nd,           \* the value calculate_nd returned (or the error it raised)
    bulk,         \* the six values calculate_parameters_dsd returned
    cpc           \* "count" while particles are counted, then "nd", then "dsd"

evars == <<ds, time_lenght, time_break, tot_counts, groups, start, end, pc>>

cvars == <<diameter, velocity, delta_t, raw, nd, bulk, cpc>>
vars == <<ds, time_lenght, time_break, tot_counts, groups, start, end, pc,
          diameter, velocity, delta_t, raw, nd, bulk, cpc>>

NaN == <<>>          \* a missing value of ds.nd
Num(x) == <<x>>      \* a present value of ds.nd

(***************************************************************************)
(* Bounds of the model                                                     *)
(***************************************************************************)
MaxLen == 4            \* time steps in ds (general specification)
MaxRun == 12           \* samples of the leading run (scenario specification)
MaxTrail == 2          \* samples of the trailing group (scenario specification)
MaxParticles == 2      \* particles counted into raw before calculate_nd is called

Gaps == {1, 9, 10}                      \* minutes between consecutive steps
NdRows == {<<NaN, NaN>>, <<Num(2), Num(3)>>, <<NaN, Num(6)>>}   \* ds.nd at one step, per diameter
TimeLenghts == {0, 1, 2}
TimeBreaks == {5, 10}
TotCounts == {0, 5}                      \* a minimum particle count, never negative
ScenarioLenghts == {9, 10, 11}
RunRow == <<Num(4), Num(6)>>                    \* total density 10
TrailRow == <<Num(1), NaN>>               \* total density 1
ScenarioGap == [run |-> 1, trail |-> 20] \* minutes: the spacing, the gap before the trail

(***************************************************************************)
(* Helpers standing for library calls                                      *)
(***************************************************************************)
RECURSIVE SumSkipna(_)
\* xarray's .sum(dim='diameter'): missing entries are skipped (skipna)
SumSkipna(row) ==
    IF row = <<>> THEN 0
    ELSE (IF Head(row) = NaN THEN 0 ELSE Head(row)[1]) + SumSkipna(Tail(row))

SetMin(S) == CHOOSE x \in S : \A y \in S : x <= y
SetMax(S) == CHOOSE x \in S : \A y \in S : x >= y

RECURSIVE SortedSeq(_)
\* the keys of a pandas groupby, in ascending order
SortedSeq(S) ==
    IF S = {} THEN <<>> ELSE <<SetMin(S)>> \o SortedSeq(S \ {SetMin(S)})

(***************************************************************************)
(* get_events, line by line                                                *)
(***************************************************************************)
\* the threshold filter with >= in place of >
ev_at_least(d, tc) ==
    LET tot == [i \in 1..Len(d) |-> [time |-> d[i].time, val |-> SumSkipna(d[i].nd)]]
    IN  SelectSeq(tot, LAMBDA s : s.val >= tc)

\* lines 142-143: the steps whose total density exceeds tot_counts, the others dropped
ev(d, tc) ==
    LET tot == [i \in 1..Len(d) |-> [time |-> d[i].time, val |-> SumSkipna(d[i].nd)]]
    IN  SelectSeq(tot, LAMBDA s : s.val > tc)

\* line 144: ev.time.diff('time') as a data frame: one row per step but the first,
\* indexed by the later timestamp, column 'date' holding the gap
a(e) ==
    [i \in 1..(IF Len(e) = 0 THEN 0 ELSE Len(e) - 1) |->
        [index |-> e[i + 1].time, date |-> e[i + 1].time - e[i].time]]

\* a break tolerance taken from the time_break argument (what line 145 does not do)
sec_from_time_break(tb) == tb

\* line 145: pd.Timedelta('10min'), whatever the time_break argument in scope
sec(tb) == 10

\* line 146
breaks(x, tb) ==
    [i \in 1..Len(x) |-> [index |-> x[i].index, date |-> x[i].date >= sec(tb)]]

\* the break flag itself as the group id, not the running count
cumsum_flag(b) ==
    [i \in 1..Len(b) |-> [index |-> b[i].index, date |-> IF b[i].date THEN 1 ELSE 0]]

\* line 147
cumsum(b) ==
    [i \in 1..Len(b) |->
        [index |-> b[i].index, date |-> Cardinality({j \in 1..i : b[j].date})]]

\* lines 148-149: groups.groupby('date'): the row indices of each key, keys ascending
groupby(g) ==
    LET keys == SortedSeq({g[i].date : i \in 1..Len(g)})
    IN  [k \in 1..Len(keys) |-> {g[i].index : i \in {j \in 1..Len(g) : g[j].date = keys[k]}}]

\* the number of rows of each group (shape[0])
groupsize(g) ==
    LET keys == SortedSeq({g[i].date : i \in 1..Len(g)})
    IN  [k \in 1..Len(keys) |-> Cardinality({j \in 1..Len(g) : g[j].date = keys[k]})]

RECURSIVE Comprehension(_, _, _, _)
\* [f(i) for i in groups if shape > time_lenght], from group k on
Comprehension(vals, sizes, L, k) ==
    IF k > Len(vals) THEN <<>>
    ELSE (IF sizes[k] > L THEN <<vals[k]>> ELSE <<>>)
         \o Comprehension(vals, sizes, L, k + 1)

\* lines 135-150
get_events(d, L, tb, tc) ==
    LET g  == cumsum(breaks(a(ev(d, tc)), tb))
        gb == groupby(g)
        sz == groupsize(g)
    IN  [groups |-> g,
         start  |-> Comprehension([k \in 1..Len(gb) |-> SetMin(gb[k])], sz, L, 1),
         end    |-> Comprehension([k \in 1..Len(gb) |-> SetMax(gb[k])], sz, L, 1)]

(***************************************************************************)
(* Floating-point classes                                                  *)
(***************************************************************************)
Cls(n) == IF n = 0 THEN "zero" ELSE "pos"      \* of an exact n >= 0

Mul(x, y) ==
    IF x = "nan" \/ y = "nan" THEN "nan"
    ELSE IF (x = "zero" /\ y = "inf") \/ (x = "inf" /\ y = "zero") THEN "nan"
    ELSE IF x = "zero" \/ y = "zero" THEN "zero"
    ELSE IF x = "inf" \/ y = "inf" THEN "inf"
    ELSE "pos"

Add(x, y) ==
    IF x = "nan" \/ y = "nan" THEN "nan"
    ELSE IF x = "inf" \/ y = "inf" THEN "inf"
    ELSE IF x = "pos" \/ y = "pos" THEN "pos"
    ELSE "zero"

\* IEEE division, as numpy performs it: 0/0 is NaN, x/0 is infinite
Div(x, y) ==
    IF x = "nan" \/ y = "nan" THEN "nan"
    ELSE IF y = "zero" THEN (IF x = "zero" THEN "nan" ELSE "inf")
    ELSE IF y = "inf" THEN (IF x = "inf" THEN "nan" ELSE "zero")
    ELSE x

RECURSIVE NanSum(_)
\* xarray's .sum(dim=...): NaN terms are skipped (skipna), the empty sum is zero
NanSum(xs) ==
    IF xs = <<>> THEN "zero"
    ELSE Add(IF Head(xs) = "nan" THEN "zero" ELSE Head(xs), NanSum(Tail(xs)))

(***************************************************************************)
(* diam_vel_classes (lines 33-47), in 1/8 mm and 1/10 m/s                  *)
(***************************************************************************)
diameter_classes ==
    <<1, 2, 3, 4, 6, 8, 10, 12, 14, 16, 20, 24, 28, 32, 36, 40, 44, 48, 52, 56, 60, 64>>

velocity_classes ==
    <<1, 2, 4, 6, 8, 10, 14, 18, 22, 26, 30, 34, 42, 50, 58, 66, 74, 82, 90, 100>>

(***************************************************************************)
(* Inputs of calculate_nd                                                  *)
(***************************************************************************)
DiameterTables == {diameter_classes, <<1, 2>>, <<0, 2>>, <<2, 2>>}
VelocityTables == {velocity_classes, <<1, 2>>, <<0, 1>>}
DeltaTs == {0, 60}
Front(t) == SubSeq(t, 1, Len(t) - 1)
RawCoords(t) == {t, Front(t)}           \* raw's labels along one dimension
Probe(n) == {1, 2, n}                   \* the bins particles are counted into

(***************************************************************************)
(* xarray's alignment of the two operands of a binary operation along one  *)
(* dimension (arithmetic_join = "inner"): positions kept in each operand   *)
(***************************************************************************)
HasDup(c) == \E i, j \in 1..Len(c) : i # j /\ c[i] = c[j]
PosOf(c, x) == CHOOSE i \in 1..Len(c) : c[i] = x
Identity(n) == [i \in 1..n |-> i]
AlignError == [ok |-> FALSE, left |-> <<>>, right |-> <<>>]

align(lc, lindexed, rc) ==
    IF ~lindexed
    THEN \* no index on the left: the sizes must agree
         IF Len(lc) = Len(rc)
         THEN [ok |-> TRUE, left |-> Identity(Len(lc)), right |-> Identity(Len(rc))]
         ELSE AlignError
    ELSE IF lc = rc
    THEN [ok |-> TRUE, left |-> Identity(Len(lc)), right |-> Identity(Len(rc))]
    ELSE IF HasDup(lc) \/ HasDup(rc)
    THEN AlignError                     \* cannot reindex on duplicate labels
    ELSE LET keep == SelectSeq(Identity(Len(lc)),
                               LAMBDA i : \E j \in 1..Len(rc) : rc[j] = lc[i])
         IN  [ok |-> TRUE, left |-> keep,
              right |-> [k \in 1..Len(keep) |-> PosOf(rc, lc[keep[k]])]]

(***************************************************************************)
(* calculate_nd (lines 51-82)                                              *)
(***************************************************************************)
\* a first bin of width zero: the differences alone, padded
delta_D_zero_first(dia) ==
    [i \in 1..Len(dia) |-> IF i = 1 THEN 0 ELSE dia[i] - dia[i - 1]]

\* lines 60-62 (and 96-98): the differences, the first diameter put in front
delta_D(dia) ==
    [i \in 1..Len(dia) |-> IF i = 1 THEN dia[1] ELSE dia[i] - dia[i - 1]]

\* lines 65-66 (and 101-102): 228 * (20 - D / 2), here in 1/16 mm^2
A(dia) == [i \in 1..Len(dia) |-> 228 * (320 - dia[i])]

\* line 69
denominator(dia, vel, dt) ==
    [i \in 1..Len(dia) |-> [j \in 1..Len(vel) |-> dt * delta_D(dia)[i] * vel[j] * A(dia)[i]]]

NdError == [status |-> "error", coord |-> <<>>, val |-> <<>>]

\* lines 51-82; the attributes of lines 75-80 are not modelled
calculate_nd(r, dia, vel, dt) ==
    LET den == denominator(dia, vel, dt)
        ad == align(r.dcoord, r.indexed, dia)
        av == align(r.vcoord, r.indexed, vel)
    IN  IF ~ad.ok \/ ~av.ok THEN NdError
        ELSE [status |-> "ok",
              coord |-> [p \in 1..Len(ad.left) |-> dia[ad.right[p]]],
              val |-> [p \in 1..Len(ad.left) |->
                          NanSum([q \in 1..Len(av.left) |->
                              Div(Cls(r.cnt[ad.left[p]][av.left[q]]),
                                  Cls(den[ad.right[p]][av.right[q]]))])]]

(***************************************************************************)
(* calculate_parameters_dsd (lines 84-133)                                 *)
(***************************************************************************)
\* line 93: 17.67 * (D / 10) ** 0.67
vd(dia) == [i \in 1..Len(dia) |-> Cls(dia[i])]

\* diameter ** k, k >= 1
Power(dia, k) == [i \in 1..Len(dia) |-> Cls(dia[i])]

\* (w * n * delta_D).sum(dim='diameter') for n aligned with the diameter table
Integral(w, n, dia) ==
    LET al == align(n.coord, TRUE, dia)
    IN  NanSum([p \in 1..Len(al.left) |->
                   Mul(Mul(w[al.right[p]], n.val[al.left[p]]),
                       Cls(delta_D(dia)[al.right[p]]))])

Ones(dia) == [i \in 1..Len(dia) |-> "pos"]
Times(u, v) == [i \in 1..Len(u) |-> Mul(u[i], v[i])]

\* line 108
R(n, dia) == Mul("pos", Integral(Times(Power(dia, 3), vd(dia)), n, dia))
\* line 111
W(n, dia) == Mul("pos", Integral(Power(dia, 3), n, dia))
\* line 114
N_T(n, dia) == Integral(Ones(dia), n, dia)
\* line 117
Z(n, dia) == Integral(Power(dia, 6), n, dia)

\* a mean diameter guarded against the zero denominator
D_m_guarded(n, dia) ==
    IF Integral(Power(dia, 3), n, dia) = "zero" THEN "zero"
    ELSE Div(Integral(Power(dia, 4), n, dia), Integral(Power(dia, 3), n, dia))

\* line 120
D_m(n, dia) == Div(Integral(Power(dia, 4), n, dia), Integral(Power(dia, 3), n, dia))
\* line 123; D_m ** 4 has the class of D_m
N_w(n, dia) == Mul("pos", Div(Mul("pos", W(n, dia)), D_m(n, dia)))

NoBulk == [status |-> "none", R |-> "nan", W |-> "nan", N_T |-> "nan", Z |-> "nan",
           D_m |-> "nan", N_w |-> "nan"]

\* lines 84-133; the attributes of lines 126-131 are not modelled
calculate_parameters_dsd(n, dia) ==
    IF ~align(n.coord, TRUE, dia).ok THEN [NoBulk EXCEPT !.status = "error"]
    ELSE [status |-> "ok", R |-> R(n, dia), W |-> W(n, dia), N_T |-> N_T(n, dia),
          Z |-> Z(n, dia), D_m |-> D_m(n, dia), N_w |-> N_w(n, dia)]

(***************************************************************************)
(* Actions of the spectrum estimator and the bulk integrator               *)
(***************************************************************************)
Zeros(n, m) == [i \in 1..n |-> [j \in 1..m |-> 0]]
NoNd == [status |-> "none", coord |-> <<>>, val |-> <<>>]

DsdInputs ==
    /\ diameter \in DiameterTables
    /\ velocity \in VelocityTables
    /\ delta_t \in DeltaTs
    /\ \E dc \in RawCoords(diameter), vc \in RawCoords(velocity), ix \in BOOLEAN :
          raw = [dcoord |-> dc, vcoord |-> vc, indexed |-> ix,
                 cnt |-> Zeros(Len(dc), Len(vc))]
    /\ nd = NoNd
    /\ bulk = NoBulk
    /\ cpc = "count"

DsdIdle ==
    /\ diameter = diameter_classes
    /\ velocity = velocity_classes
    /\ delta_t = 60                                         \* line 51 default
    /\ raw = [dcoord |-> diameter_classes, vcoord |-> velocity_classes,
              indexed |-> TRUE, cnt |-> Zeros(22, 20)]
    /\ nd = NoNd
    /\ bulk = NoBulk
    /\ cpc = "count"

RECURSIVE SeqSum(_)
SeqSum(xs) == IF xs = <<>> THEN 0 ELSE Head(xs) + SeqSum(Tail(xs))
Particles == SeqSum([i \in 1..Len(raw.cnt) |-> SeqSum(raw.cnt[i])])

\* the instrument counts one particle into a cell of raw
RecordParticle ==
    /\ cpc = "count"
    /\ Particles < MaxParticles
    /\ \E i \in Probe(Len(raw.dcoord)) \cap 1..Len(raw.dcoord),
          j \in Probe(Len(raw.vcoord)) \cap 1..Len(raw.vcoord) :
          raw' = [raw EXCEPT !.cnt[i][j] = @ + 1]
    /\ UNCHANGED <<diameter, velocity, delta_t, nd, bulk, cpc>>
    /\ UNCHANGED evars

\* the call calculate_nd(raw, diameter, velocity, delta_t)
CalculateNd ==
    /\ cpc = "count"
    /\ nd' = calculate_nd(raw, diameter, velocity, delta_t)
    /\ cpc' = "nd"
    /\ UNCHANGED <<diameter, velocity, delta_t, raw, bulk>>
    /\ UNCHANGED evars

\* the call calculate_parameters_dsd(nd, diameter) on the spectrum returned
CalculateParametersDsd ==
    /\ cpc = "nd"
    /\ nd.status = "ok"
    /\ bulk' = calculate_parameters_dsd(nd, diameter)
    /\ cpc' = "dsd"
    /\ UNCHANGED <<diameter, velocity, delta_t, raw, nd>>
    /\ UNCHANGED evars


(***************************************************************************)
(* Actions of the event segmenter                                          *)
(***************************************************************************)
EventsIdle ==
    /\ ds = <<>>
    /\ time_lenght = 10 /\ time_break = 5 /\ tot_counts = 5   \* line 135 defaults
    /\ groups = <<>> /\ start = <<>> /\ end = <<>>
    /\ pc = "build"

\* the state before get_events is given anything; the other functions are not called
InitEvents == EventsIdle /\ DsdIdle

NextTime(gap) == IF ds = <<>> THEN 0 ELSE ds[Len(ds)].time + gap

\* the data loader appends one time step to ds
AppendStep ==
    /\ pc = "build"
    /\ Len(ds) < MaxLen
    /\ \E gap \in Gaps, row \in NdRows :
          ds' = Append(ds, [time |-> NextTime(gap), nd |-> row])
    /\ UNCHANGED <<time_lenght, time_break, tot_counts, groups, start, end, pc>>
    /\ UNCHANGED cvars

\* the call get_events(ds, time_lenght, time_break, tot_counts)
Call(Ls) ==
    /\ pc = "build"
    /\ \E L \in Ls, tb \in TimeBreaks, tc \in TotCounts :
          LET r == get_events(ds, L, tb, tc)
          IN  /\ time_lenght' = L /\ time_break' = tb /\ tot_counts' = tc
              /\ groups' = r.groups /\ start' = r.start /\ end' = r.end
    /\ pc' = "done"
    /\ UNCHANGED ds
    /\ UNCHANGED cvars

CallGetEvents == Call(TimeLenghts)

NextEvents == AppendStep \/ CallGetEvents

SpecEvents == InitEvents /\ [][NextEvents]_vars

(***************************************************************************)
(* The scenario family: a run of samples of density 10 at 1-minute spacing,*)
(* then, after a 20-minute gap, samples of density 1                       *)
(***************************************************************************)
RunLen == Cardinality({i \in 1..Len(ds) : ds[i].nd = RunRow})
TrailLen == Cardinality({i \in 1..Len(ds) : ds[i].nd = TrailRow})

AppendRun ==
    /\ pc = "build"
    /\ TrailLen = 0
    /\ RunLen < MaxRun
    /\ ds' = Append(ds, [time |-> NextTime(ScenarioGap.run), nd |-> RunRow])
    /\ UNCHANGED <<time_lenght, time_break, tot_counts, groups, start, end, pc>>
    /\ UNCHANGED cvars

AppendTrailing ==
    /\ pc = "build"
    /\ TrailLen < MaxTrail
    /\ ds' = Append(ds, [time |-> NextTime(IF TrailLen = 0 THEN ScenarioGap.trail
                                         ELSE ScenarioGap.run),
                         nd |-> TrailRow])
    /\ UNCHANGED <<time_lenght, time_break, tot_counts, groups, start, end, pc>>
    /\ UNCHANGED cvars

CallScenario == Call(ScenarioLenghts)

NextScenario == AppendRun \/ AppendTrailing \/ CallScenario

SpecScenario == InitEvents /\ [][NextScenario]_vars

NextDsd == RecordParticle \/ CalculateNd \/ CalculateParametersDsd

\* the arguments of calculate_nd are chosen; get_events is not called
InitDsd == EventsIdle /\ DsdInputs

SpecDsd == InitDsd /\ [][NextDsd]_vars

(***************************************************************************)
(* Vocabulary of the claims about get_events                               *)
(***************************************************************************)
\* the indices of ds whose total density exceeds tot_counts, ascending
Surviving == SortedSeq({i \in 1..Len(ds) : SumSkipna(ds[i].nd) > tot_counts})

\* the k-th surviving step opens a new run: it is the first, or a break precedes it
OpensRun(k) ==
    \/ k = 1
    \/ ds[Surviving[k]].time - ds[Surviving[k - 1]].time >= 10

\* the k-th surviving step closes a run
ClosesRun(k) == k = Len(Surviving) \/ OpensRun(k + 1)

\* the maximal runs <<first, last>> (positions in Surviving), in time order
RunStarts == SortedSeq({k \in 1..Len(Surviving) : OpensRun(k)})
RunEnds == SortedSeq({k \in 1..Len(Surviving) : ClosesRun(k)})

RECURSIVE LongRuns(_, _)
\* the times picked by `pick` of the runs of more than time_lenght steps, from run r on
LongRuns(pick, r) ==
    IF r > Len(RunStarts) THEN <<>>
    ELSE (IF RunEnds[r] - RunStarts[r] + 1 > time_lenght
          THEN <<ds[Surviving[pick[r]]].time>> ELSE <<>>)
         \o LongRuns(pick, r + 1)

GroupIndex == {groups[i].index : i \in 1..Len(groups)}

\* ds is the 11-sample run followed by the 2-sample trailing group
IsScenario == RunLen = 11 /\ TrailLen = 2

(***************************************************************************)
(* Claims about get_events                                                 *)
(***************************************************************************)
\* C1: on the scenario series (11 samples of density 10 at 1-minute spacing, a
\* 20-minute gap, 2 samples of density 1) with tot_counts = 5 and time_lenght = 10,
\* get_events returns exactly one event, from the 1st sample to the 11th.
C1_ScenarioOneEvent ==
    (pc = "done" /\ IsScenario /\ tot_counts = 5 /\ time_lenght = 10)
        => (start = <<ds[1].time>> /\ end = <<ds[11].time>>)

\* C2: a series that is one contiguous run of n samples above tot_counts yields an
\* event if and only if n > time_lenght.
C2_StrictLengthBoundary ==
    (pc = "done" /\ Len(Surviving) = Len(ds) /\ Len(RunStarts) <= 1)
        => ((start # <<>>) <=> (Len(ds) > time_lenght))

\* C3: every surviving step belongs to a group, and the events are exactly the
\* (earliest, latest) timestamps of the maximal runs of more than time_lenght
\* surviving steps, the first run included.
C3_GroupsCoverRuns ==
    pc = "done" =>
        /\ \A k \in 1..Len(Surviving) : ds[Surviving[k]].time \in GroupIndex
        /\ start = LongRuns(RunStarts, 1)
        /\ end = LongRuns(RunEnds, 1)

\* C4: the two returned lists have the same length, each event starts no later than
\* it ends, and each event ends before the next one starts.
C4_OrderedDisjointEvents ==
    pc = "done" =>
        /\ Len(start) = Len(end)
        /\ \A i \in 1..Len(start) : start[i] <= end[i]
        /\ \A i \in 1..(Len(start) - 1) : end[i] < start[i + 1]

C4_Witness == pc = "done" /\ Len(start) >= 2 /\ start[1] < end[1]

\* C5: with no step, or only one step, above tot_counts (ds empty or all-missing
\* included) the call returns two empty lists.
C5_NothingToSegment ==
    (pc = "done" /\ Len(Surviving) <= 1) => (start = <<>> /\ end = <<>>)

C5_Witness ==
    /\ pc = "done" /\ Len(Surviving) = 1 /\ time_lenght = 0
    /\ \E i \in 1..Len(ds) : ds[i].nd = <<NaN, NaN>>
    /\ \E i \in 1..Len(ds) : SumSkipna(ds[i].nd) = tot_counts

NdReturned == cpc # "count" /\ nd.status = "ok"
RawAllZero == \A i \in 1..Len(raw.cnt) : \A j \in 1..Len(raw.cnt[i]) : raw.cnt[i][j] = 0
NdAllZero == \A p \in 1..Len(nd.val) : nd.val[p] = "zero"
FixedTables == diameter = diameter_classes /\ velocity = velocity_classes
ShapeMismatch == Len(raw.dcoord) # Len(diameter) \/ Len(raw.vcoord) # Len(velocity)

\* N(D) of the p-th returned bin when the cells of zero denominator contribute zero
GuardedNd(p) ==
    LET den == denominator(diameter, velocity, delta_t)
        ad == align(raw.dcoord, raw.indexed, diameter)
        av == align(raw.vcoord, raw.indexed, velocity)
    IN  NanSum([q \in 1..Len(av.left) |->
            IF den[ad.right[p]][av.right[q]] = 0 THEN "zero"
            ELSE Div(Cls(raw.cnt[ad.left[p]][av.left[q]]), "pos")])

(***************************************************************************)
(* Claims about calculate_nd and calculate_parameters_dsd                  *)
(***************************************************************************)
\* C6: for N(D) zero in every bin, calculate_parameters_dsd returns R, W, N_T and Z
\* equal to zero and D_m and N_w missing, and raises nothing.
C6_ZeroSpectrumBulk ==
    (cpc = "dsd" /\ NdAllZero) =>
        /\ bulk.status = "ok"
        /\ bulk.R = "zero" /\ bulk.W = "zero" /\ bulk.N_T = "zero" /\ bulk.Z = "zero"
        /\ bulk.D_m = "nan" /\ bulk.N_w = "nan"

C6_Witness == cpc = "dsd" /\ NdAllZero /\ FixedTables /\ Len(nd.val) = 22 /\ delta_t = 60

\* C7: a cell whose denominator is zero contributes zero to N(D) of its bin whatever
\* its raw count, and N(D) holds no infinite or invalid value.
C7_ZeroDenominatorGuarded ==
    (NdReturned /\ ~ShapeMismatch) =>
        \A p \in 1..Len(nd.val) : nd.val[p] = GuardedNd(p) /\ nd.val[p] \notin {"inf", "nan"}

\* C8: with the tables of diam_vel_classes, a positive delta_t and a 22 x 20 raw
\* matrix of zeros, N(D) is zero in each of the 22 bins, every bin width, velocity and
\* area being positive so that no denominator is zero.
C8_ZeroCountsZeroSpectrum ==
    (cpc # "count" /\ FixedTables /\ ~ShapeMismatch /\ delta_t > 0 /\ RawAllZero) =>
        /\ nd.status = "ok" /\ Len(nd.val) = 22 /\ NdAllZero
        /\ \A i \in 1..22 : delta_D(diameter)[i] > 0 /\ A(diameter)[i] > 0
        /\ \A j \in 1..20 : velocity[j] > 0
        /\ \A i \in 1..22 : \A j \in 1..20 :
              denominator(diameter, velocity, delta_t)[i][j] > 0

C8_Witness ==
    /\ cpc # "count" /\ FixedTables /\ ~ShapeMismatch /\ delta_t = 60 /\ RawAllZero
    /\ nd.status = "ok" /\ nd.coord = diameter_classes

\* C9: a raw matrix whose shape does not match the 22 diameters and 20 velocities of
\* the tables makes calculate_nd fail with an error; no N(D) is returned.
C9_ShapeMismatchFails ==
    (cpc # "count" /\ FixedTables /\ ShapeMismatch) => nd.status = "error"

====
